---------------------------- MODULE Spec2Model ----------------------------
(***************************************************************************)
(* Model of package vk (strongo/vk):                                       *)
(*   - users.go: UsersGet and GetUserByIntID, one caller stepping through  *)
(*     validation, URL construction, the HTTP GET, the body read, the JSON *)
(*     decode and the return;                                              *)
(*   - the token registry VkAppsPull with its addToken method, called by   *)
(*     concurrent goroutines.                                              *)
(* Go strings that the code converts or joins are sequences of one-        *)
(* character strings; error messages are plain strings.                    *)
(***************************************************************************)
EXTENDS Integers, Sequences, FiniteSets, TLC

VARIABLES
    pc,            \* position of the caller in users.go
    via,           \* "UsersGet" (direct call) or "GetUserByIntID"
    userID,        \* argument of GetUserByIntID
    userIds,       \* argument of UsersGet
    fields,        \* argument of UsersGet
    nameCase,      \* argument of UsersGet
    url,           \* the request URL built at lines 171-194, NoURL before
    httpCalls,     \* number of httpClient.Get calls issued
    usersGetCalls, \* number of UsersGet invocations
    getErr,        \* err of httpClient.Get (line 196)
    responseBody,  \* the bytes ioutil.ReadAll returned (line 201), NotRead before
    response,      \* local var response Response (line 188)
    result,        \* what UsersGet returned: [users, err]
    outcome,       \* how the outermost call ended
    pull,          \* the VkAppsPull value addToken is called on
    mutex,         \* state of the sync.Locker behind pull.locker
    tokens,        \* contents of the map behind pull.tokens
    apc,           \* position of each goroutine in addToken
    aarg,          \* arguments of each goroutine's current addToken call
    ncalls,        \* addToken calls each goroutine has started
    last,          \* history: token of the most recent addToken call per appID
    sequential     \* history: no addToken call started while another ran

uvars == <<pc, via, userID, userIds, fields, nameCase, url, httpCalls,
           usersGetCalls, getErr, responseBody, response, result,
           outcome>>
pvars == <<pull, mutex, tokens, apc, aarg, ncalls, last, sequential>>
vars == <<uvars, pvars>>

-----------------------------------------------------------------------------
(* Bounds *)

\* longest userIds list a caller passes
MaxIds == 2
\* longest `response` array a body carries
MaxUsers == 2
\* addToken calls per goroutine
MaxAddCalls == 2

-----------------------------------------------------------------------------
(* Strings *)

nom == <<"n", "o", "m">>
gen == <<"g", "e", "n">>
dat == <<"d", "a", "t">>
acc == <<"a", "c", "c">>
ins == <<"i", "n", "s">>
abl == <<"a", "b", "l">>
EmptyString == <<>>

\* users.go:17
NameCases == <<nom, gen, dat, acc, ins, abl>>

\* strings.Join
RECURSIVE Join(_, _)
Join(elems, sep) ==
    IF Len(elems) = 0 THEN <<>>
    ELSE IF Len(elems) = 1 THEN elems[1]
    ELSE elems[1] \o sep \o Join(Tail(elems), sep)

DigitChar(d) ==
    CASE d = 0 -> "0" [] d = 1 -> "1" [] d = 2 -> "2" [] d = 3 -> "3"
      [] d = 4 -> "4" [] d = 5 -> "5" [] d = 6 -> "6" [] d = 7 -> "7"
      [] d = 8 -> "8" [] d = 9 -> "9"

RECURSIVE FormatUint(_)
FormatUint(n) ==
    IF n < 10 THEN <<DigitChar(n)>>
    ELSE Append(FormatUint(n \div 10), DigitChar(n % 10))

\* strconv.FormatInt(userID, 10)
FormatInt(n) == IF n < 0 THEN <<"-">> \o FormatUint(-n) ELSE FormatUint(n)

\* ElemInSlice(elem, slice): membership of elem in slice
ElemInSlice(elem, slice) == \E i \in 1..Len(slice) : slice[i] = elem

-----------------------------------------------------------------------------
(* Errors and values of users.go *)

NilErr == [kind |-> "nil"]
ErrNoIds ==
    [kind |-> "errors.New",
     msg |-> "you must pass at least one id or screen_name"]
ErrNameCase ==
    [kind |-> "errors.New",
     msg |-> "the only available name cases are: nom, gen, dat, acc, ins, abl"]
TransportErrors ==
    {[kind |-> "transport", msg |-> "connection refused"],
     [kind |-> "transport", msg |-> "timeout"]}
\* errors.Wrap(err, "Failed to unmarshal VK response")
Wrap(err) ==
    [kind |-> "errors.Wrap", msg |-> "Failed to unmarshal VK response",
     cause |-> err]

\* a []UserInfo: the nil slice, or a slice with elements
NilSlice == [isNil |-> TRUE, elems |-> <<>>]
Slice(s) == [isNil |-> FALSE, elems |-> s]

\* UserInfo{} with its id field; the other fields decode the same way
UserInfo(id) == [ID |-> id]
ZeroUserInfo == UserInfo(0)

\* vkError as an error value; VkErrorCode returns Code
vkError(code) == [kind |-> "vkError", Code |-> code]
VkErrorCode(err) == err.Code
ImplementsVkError(err) == err.kind = "vkError"

\* var response Response (the zero value)
ZeroResponse == [Error |-> NilErr, Response |-> NilSlice]

NoURL == [path |-> "none"]
NotRead == [syntax |-> "notread"]
NoResult == [users |-> NilSlice, err |-> NilErr, set |-> FALSE]

-----------------------------------------------------------------------------
(* The HTTP response body as JSON text, by its structure.                  *)
(* syntax = "invalid": not JSON at all (such as a body cut short by a      *)
(* failed read).  Otherwise top is the kind of the top-level value; an object *)
(* carries its `error` and `response` members (other members are ignored   *)
(* by encoding/json).                                                      *)

Absent == [t |-> "absent"]
Null == [t |-> "null"]
Str == [t |-> "string"]
Num(n) == [t |-> "number", v |-> n]
Obj(m) == [t |-> "object", m |-> m]
Arr(s) == [t |-> "array", elems |-> s]

\* values of error.error_code the server may send
ErrorCodes == {5, 113}
\* values of response[i].id the server may send
UserJsonIds == {1, 2}

SeqsUpTo(S, n) == UNION {[1..k -> S] : k \in 0..n}

ErrorCodeJson == {Absent, Null, Str} \cup {Num(c) : c \in ErrorCodes}
ErrorJson ==
    {Absent, Null, Str} \cup {Obj([error_code |-> c]) : c \in ErrorCodeJson}
UserJson == {Null, Str} \cup {Obj([id |-> Num(i)]) : i \in UserJsonIds}
ResponseJson ==
    {Absent, Null, Str} \cup {Arr(s) : s \in SeqsUpTo(UserJson, MaxUsers)}

InvalidJson == [syntax |-> "invalid"]
Bodies ==
    {InvalidJson}
    \cup {[syntax |-> "json", top |-> k] : k \in {Null, Str, Arr(<<>>)}}
    \cup {[syntax |-> "json", top |-> Obj([error |-> e, response |-> r])] :
            e \in ErrorJson, r \in ResponseJson}

\* json errors
SyntaxError == [kind |-> "json.SyntaxError"]
UnmarshalTypeError == [kind |-> "json.UnmarshalTypeError"]

\* decode of the member `error_code` into vkError.Code (int)
DecodeCode(j) ==
    CASE j.t = "number" -> [err |-> NilErr, v |-> j.v]
      [] j.t \in {"absent", "null"} -> [err |-> NilErr, v |-> 0]
      [] OTHER -> [err |-> UnmarshalTypeError, v |-> 0]

\* decode of the member `error` into Response.Error (*vkError)
DecodeError(j) ==
    CASE j.t = "object" ->
           LET c == DecodeCode(j.m.error_code)
           IN  [err |-> c.err, v |-> vkError(c.v)]
      [] j.t \in {"absent", "null"} -> [err |-> NilErr, v |-> NilErr]
      [] OTHER -> [err |-> UnmarshalTypeError, v |-> NilErr]

\* decode of one element of `response` into a UserInfo
DecodeUser(j) ==
    CASE j.t = "object" -> [err |-> NilErr, v |-> UserInfo(j.m.id.v)]
      [] j.t = "null" -> [err |-> NilErr, v |-> ZeroUserInfo]
      [] OTHER -> [err |-> UnmarshalTypeError, v |-> ZeroUserInfo]

\* a decode that loses the last element of the array
DecodeUsersDropsLast(j) ==
    CASE j.t = "array" ->
           LET d == [i \in 1..Len(j.elems) |-> DecodeUser(j.elems[i])]
           IN  [err |-> IF \E i \in 1..Len(d) : d[i].err # NilErr
                        THEN UnmarshalTypeError ELSE NilErr,
                v |-> Slice([i \in 1..(Len(d) - 1) |-> d[i].v])]
      [] j.t \in {"absent", "null"} -> [err |-> NilErr, v |-> NilSlice]
      [] OTHER -> [err |-> UnmarshalTypeError, v |-> NilSlice]

\* decode of the member `response` into Response.Response ([]UserInfo)
DecodeUsers(j) ==
    CASE j.t = "array" ->
           LET d == [i \in 1..Len(j.elems) |-> DecodeUser(j.elems[i])]
           IN  [err |-> IF \E i \in 1..Len(d) : d[i].err # NilErr
                        THEN UnmarshalTypeError ELSE NilErr,
                v |-> Slice([i \in 1..Len(d) |-> d[i].v])]
      [] j.t \in {"absent", "null"} -> [err |-> NilErr, v |-> NilSlice]
      [] OTHER -> [err |-> UnmarshalTypeError, v |-> NilSlice]

\* json.Unmarshal(responseBody, &response) on the zero Response
Unmarshal(body) ==
    IF body.syntax # "json" THEN [err |-> SyntaxError, v |-> ZeroResponse]
    ELSE CASE body.top.t = "null" -> [err |-> NilErr, v |-> ZeroResponse]
           [] body.top.t = "object" ->
                LET e == DecodeError(body.top.m.error)
                    r == DecodeUsers(body.top.m.response)
                IN  [err |-> IF e.err # NilErr \/ r.err # NilErr
                             THEN UnmarshalTypeError ELSE NilErr,
                     v |-> [Error |-> e.v, Response |-> r.v]]
           [] OTHER -> [err |-> UnmarshalTypeError, v |-> ZeroResponse]

-----------------------------------------------------------------------------
(* UsersGet, lines 163-214 *)

\* api.getAPIURL("users.get"): the endpoint of the method, no query yet
getAPIURL(method) == [path |-> method, query |-> [k \in {} |-> <<>>]]

\* url.Values.Set
QuerySet(q, k, v) ==
    [x \in DOMAIN q \cup {k} |-> IF x = k THEN v ELSE q[x]]

\* url.Values.Encode: the key=value pairs sorted by key
Encode(q) ==
    LET keys == SelectSeq(<<"fields", "name_case", "user_ids">>,
                          LAMBDA k : k \in DOMAIN q)
    IN  [i \in 1..Len(keys) |-> <<keys[i], q[keys[i]]>>]

\* a validation that forgets the empty-list check
ValidateNoIdsCheck(ids, nc) ==
    IF ~ElemInSlice(nc, NameCases) THEN ErrNameCase ELSE NilErr

\* lines 164-169: the error the input validation returns, NilErr when it passes
Validate(ids, nc) ==
    IF Len(ids) = 0 THEN ErrNoIds
    ELSE IF ~ElemInSlice(nc, NameCases) THEN ErrNameCase
    ELSE NilErr

\* lines 171-184 and 194: the request URL
BuildURL(ids, flds, nc) ==
    LET endpoint == getAPIURL("users.get")
        q0 == endpoint.query
        q1 == QuerySet(q0, "user_ids", Join(ids, <<",">>))
        q2 == IF Len(flds) > 0
              THEN QuerySet(q1, "fields", Join(flds, <<",">>)) ELSE q1
        q3 == IF nc # EmptyString THEN QuerySet(q2, "name_case", nc) ELSE q2
    IN  [path |-> endpoint.path, RawQuery |-> Encode(q3)]

\* a return that drops the list when the API reported an error
UsersGetReturnDropsList(u) ==
    IF u.err # NilErr THEN [users |-> NilSlice, err |-> Wrap(u.err), set |-> TRUE]
    ELSE IF u.v.Error # NilErr
         THEN [users |-> NilSlice, err |-> u.v.Error, set |-> TRUE]
         ELSE [users |-> u.v.Response, err |-> NilErr, set |-> TRUE]

\* a return that hands out the decoded list even when the decode failed
UsersGetReturnKeepsList(u) ==
    [users |-> u.v.Response,
     err |-> IF u.err # NilErr THEN Wrap(u.err) ELSE u.v.Error,
     set |-> TRUE]

\* lines 205-213: what UsersGet returns, u being json.Unmarshal's outcome
UsersGetReturn(u) ==
    IF u.err # NilErr
    THEN [users |-> NilSlice, err |-> Wrap(u.err), set |-> TRUE]
    ELSE [users |-> u.v.Response,
          err |-> IF u.v.Error # NilErr THEN u.v.Error ELSE NilErr,
          set |-> TRUE]

\* the inputs callers pass
IdStrings == {<<"1">>, <<"d", "u", "r", "o", "v">>}
UserIdsInputs == SeqsUpTo(IdStrings, MaxIds)
FieldsInputs == {<<>>, <<<<"s", "e", "x">>>>,
                 <<<<"s", "e", "x">>, <<"b", "d", "a", "t", "e">>>>}
NameCaseInputs ==
    {EmptyString, <<"x", "y", "z">>} \cup {NameCases[i] : i \in 1..Len(NameCases)}
UserIDInputs == {-7, 0, 42, 1050}

UsersInit ==
    /\ pc = "idle"
    /\ via = "none"
    /\ userID = 0
    /\ userIds = <<>>
    /\ fields = <<>>
    /\ nameCase = EmptyString
    /\ url = NoURL
    /\ httpCalls = 0
    /\ usersGetCalls = 0
    /\ getErr = NilErr
    /\ responseBody = NotRead
    /\ response = ZeroResponse
    /\ result = NoResult
    /\ outcome = [kind |-> "none"]

\* a caller invokes UsersGet(c, userIds, fields, nameCase)
CallUsersGet ==
    /\ pc = "idle"
    /\ \E ids \in UserIdsInputs, flds \in FieldsInputs, nc \in NameCaseInputs :
         /\ userIds' = ids
         /\ fields' = flds
         /\ nameCase' = nc
    /\ via' = "UsersGet"
    /\ usersGetCalls' = usersGetCalls + 1
    /\ pc' = "UsersGet"
    /\ UNCHANGED pvars
    /\ UNCHANGED <<userID, url, httpCalls, getErr, responseBody,
                   response, result, outcome>>

\* line 142: GetUserByIntID invokes UsersGet with the formatted identifier
CallGetUserByIntID ==
    /\ pc = "idle"
    /\ \E id \in UserIDInputs, flds \in FieldsInputs, nc \in NameCaseInputs :
         /\ userID' = id
         /\ userIds' = <<FormatInt(id)>>
         /\ fields' = flds
         /\ nameCase' = nc
    /\ via' = "GetUserByIntID"
    /\ usersGetCalls' = usersGetCalls + 1
    /\ pc' = "UsersGet"
    /\ UNCHANGED pvars
    /\ UNCHANGED <<url, httpCalls, getErr, responseBody, response,
                   result, outcome>>

\* lines 164-195
UsersGetValidate ==
    /\ pc = "UsersGet"
    /\ LET e == Validate(userIds, nameCase)
       IN  IF e # NilErr
           THEN /\ result' = [users |-> NilSlice, err |-> e, set |-> TRUE]
                /\ pc' = "UsersGetReturned"
                /\ url' = url
           ELSE /\ url' = BuildURL(userIds, fields, nameCase)
                /\ pc' = "Get"
                /\ result' = result
    /\ UNCHANGED pvars
    /\ UNCHANGED <<via, userID, userIds, fields, nameCase, httpCalls,
                   usersGetCalls, getErr, responseBody, response,
                   outcome>>

\* a GET that is issued again after a transport failure
HttpGetFailsRetries ==
    /\ pc = "Get"
    /\ \E e \in TransportErrors : getErr' = e
    /\ httpCalls' = httpCalls + 1
    /\ IF httpCalls = 0
       THEN pc' = "Get" /\ result' = result
       ELSE /\ pc' = "UsersGetReturned"
            /\ result' = [users |-> NilSlice, err |-> getErr', set |-> TRUE]
    /\ UNCHANGED pvars
    /\ UNCHANGED <<via, userID, userIds, fields, nameCase, url, usersGetCalls,
                   responseBody, response, outcome>>

\* lines 196-198: httpClient.Get fails
HttpGetFails ==
    /\ pc = "Get"
    /\ \E e \in TransportErrors : getErr' = e
    /\ httpCalls' = httpCalls + 1
    /\ result' = [users |-> NilSlice, err |-> getErr', set |-> TRUE]
    /\ pc' = "UsersGetReturned"
    /\ UNCHANGED pvars
    /\ UNCHANGED <<via, userID, userIds, fields, nameCase, url, usersGetCalls,
                   responseBody, response, outcome>>

\* line 196: httpClient.Get answers (whatever the status) with a body
HttpGetAnswers ==
    /\ pc = "Get"
    /\ httpCalls' = httpCalls + 1
    /\ pc' = "ReadAll"
    /\ UNCHANGED pvars
    /\ UNCHANGED <<via, userID, userIds, fields, nameCase, url, usersGetCalls,
                   getErr, responseBody, response, result, outcome>>

\* line 201: the body is read; the read's error is not looked at, so b is
\* whatever bytes came back
ReadBody ==
    /\ pc = "ReadAll"
    /\ \E b \in Bodies : responseBody' = b
    /\ pc' = "Unmarshal"
    /\ UNCHANGED pvars
    /\ UNCHANGED <<via, userID, userIds, fields, nameCase, url, httpCalls,
                   usersGetCalls, getErr, response, result, outcome>>

\* lines 205-213
UnmarshalAndReturn ==
    /\ pc = "Unmarshal"
    /\ LET u == Unmarshal(responseBody)
       IN  /\ response' = u.v
           /\ result' = UsersGetReturn(u)
    /\ pc' = "UsersGetReturned"
    /\ UNCHANGED pvars
    /\ UNCHANGED <<via, userID, userIds, fields, nameCase, url, httpCalls,
                   usersGetCalls, getErr, responseBody, outcome>>

\* a wrapper that looks at the record count before the error
GetUserByIntIDCountFirst(r) ==
    IF Len(r.users.elems) # 1 THEN [kind |-> "panic"]
    ELSE [kind |-> "return", user |-> r.users.elems[1], err |-> r.err]

\* lines 142-148: how GetUserByIntID ends, r being what UsersGet returned
GetUserByIntIDOutcome(r) ==
    IF r.err # NilErr
    THEN [kind |-> "return", user |-> ZeroUserInfo, err |-> r.err]
    ELSE IF Len(r.users.elems) # 1 THEN [kind |-> "panic"]
    ELSE [kind |-> "return", user |-> r.users.elems[1], err |-> NilErr]

\* lines 142-148
GetUserByIntIDEnds ==
    /\ pc = "UsersGetReturned"
    /\ via = "GetUserByIntID"
    /\ outcome' = GetUserByIntIDOutcome(result)
    /\ pc' = "done"
    /\ UNCHANGED pvars
    /\ UNCHANGED <<via, userID, userIds, fields, nameCase, url, httpCalls,
                   usersGetCalls, getErr, responseBody, response,
                   result>>

UsersNext ==
    \/ CallUsersGet
    \/ CallGetUserByIntID
    \/ UsersGetValidate
    \/ HttpGetFails
    \/ HttpGetAnswers
    \/ ReadBody
    \/ UnmarshalAndReturn
    \/ GetUserByIntIDEnds

-----------------------------------------------------------------------------
(* The token registry *)

\* a VkAppsPull value: locker is a nil interface or refers to a mutex,
\* tokens is a nil map or refers to a map
VkAppsPull(locker, tokensRef) == [locker |-> locker, tokens |-> tokensRef]

\* var vkAppsPull VkAppsPull = VkAppsPull{}; RegisterVkApps leaves it alone
vkAppsPull == VkAppsPull("nil", "nil")

\* addToken has a value receiver: the values it can be called on
Receivers == {VkAppsPull(l, t) : l \in {"nil", "mutex"}, t \in {"nil", "map"}}

Goroutines == {"g1", "g2"}
AppIDs == {"app1", "app2"}
AccessTokens == {"t1", "t2"}
NoToken == "none"
NoArg == [appID |-> "none", token |-> NoToken]

\* m[k] = v on a Go map held as its set of <<key, value>> entries
MapAssign(m, k, v) == {e \in m : e[1] # k} \cup {<<k, v>>}

Entries(m, k) == {e \in m : e[1] = k}

InCall(g) == apc[g] \in {"Lock", "write", "Unlock"}

PullInit ==
    /\ pull \in Receivers
    /\ mutex = "unlocked"
    /\ tokens = {}
    /\ apc = [g \in Goroutines |-> "idle"]
    /\ aarg = [g \in Goroutines |-> NoArg]
    /\ ncalls = [g \in Goroutines |-> 0]
    /\ last = [a \in AppIDs |-> NoToken]
    /\ sequential = TRUE

\* goroutine g calls pull.addToken(appID, token)
CallAddToken(g) ==
    /\ apc[g] = "idle"
    /\ ncalls[g] < MaxAddCalls
    /\ \E a \in AppIDs, t \in AccessTokens :
         /\ aarg' = [aarg EXCEPT ![g] = [appID |-> a, token |-> t]]
         /\ last' = [last EXCEPT ![a] = t]
    /\ ncalls' = [ncalls EXCEPT ![g] = @ + 1]
    /\ sequential' = (sequential /\ \A h \in Goroutines : ~InCall(h))
    /\ apc' = [apc EXCEPT ![g] = "Lock"]
    /\ UNCHANGED uvars
    /\ UNCHANGED <<pull, mutex, tokens>>

\* line 20 on a nil locker: the method call on the nil interface panics
LockPanics(g) ==
    /\ apc[g] = "Lock"
    /\ pull.locker = "nil"
    /\ apc' = [apc EXCEPT ![g] = "panic"]
    /\ UNCHANGED uvars
    /\ UNCHANGED <<pull, mutex, tokens, aarg, ncalls, last, sequential>>

\* line 20: Lock returns once the mutex is free
LockAcquires(g) ==
    /\ apc[g] = "Lock"
    /\ pull.locker = "mutex"
    /\ mutex = "unlocked"
    /\ mutex' = g
    /\ apc' = [apc EXCEPT ![g] = "write"]
    /\ UNCHANGED uvars
    /\ UNCHANGED <<pull, tokens, aarg, ncalls, last, sequential>>

\* line 21 on a nil map: the assignment panics, line 22 is not reached
WritePanics(g) ==
    /\ apc[g] = "write"
    /\ pull.tokens = "nil"
    /\ apc' = [apc EXCEPT ![g] = "panic"]
    /\ UNCHANGED uvars
    /\ UNCHANGED <<pull, mutex, tokens, aarg, ncalls, last, sequential>>

\* line 21
WriteToken(g) ==
    /\ apc[g] = "write"
    /\ pull.tokens = "map"
    /\ tokens' = MapAssign(tokens, aarg[g].appID, aarg[g].token)
    /\ apc' = [apc EXCEPT ![g] = "Unlock"]
    /\ UNCHANGED uvars
    /\ UNCHANGED <<pull, mutex, aarg, ncalls, last, sequential>>

\* lines 22-23
UnlockAndReturn(g) ==
    /\ apc[g] = "Unlock"
    /\ mutex' = "unlocked"
    /\ apc' = [apc EXCEPT ![g] = "idle"]
    /\ UNCHANGED uvars
    /\ UNCHANGED <<pull, tokens, aarg, ncalls, last, sequential>>

PullNext ==
    \E g \in Goroutines :
        \/ CallAddToken(g)
        \/ LockPanics(g)
        \/ LockAcquires(g)
        \/ WritePanics(g)
        \/ WriteToken(g)
        \/ UnlockAndReturn(g)

-----------------------------------------------------------------------------
(* Specifications *)

\* the registry as the package leaves it, with no addToken call running
PullAtRest ==
    /\ pull = vkAppsPull
    /\ mutex = "unlocked"
    /\ tokens = {}
    /\ apc = [g \in Goroutines |-> "idle"]
    /\ aarg = [g \in Goroutines |-> NoArg]
    /\ ncalls = [g \in Goroutines |-> 0]
    /\ last = [a \in AppIDs |-> NoToken]
    /\ sequential = TRUE

Init == UsersInit /\ PullAtRest
Next == UsersNext

\* a caller of users.go
Spec == Init /\ [][Next]_vars

\* goroutines calling addToken
PullSpecInit == PullInit /\ UsersInit
PullSpec == PullSpecInit /\ [][PullNext]_vars

-----------------------------------------------------------------------------
(* Properties of UsersGet and GetUserByIntID *)

SixNameCases == {nom, gen, dat, acc, ins, abl}

\* UsersGet has returned
Returned == result.set

\* the body decodes into the envelope: JSON null, or an object whose `error`
\* is absent, null or an object with an absent, null or numeric error_code,
\* and whose `response` is absent, null or an array of objects and nulls
ValidForEnvelope(body) ==
    /\ body.syntax = "json"
    /\ \/ body.top.t = "null"
       \/ /\ body.top.t = "object"
          /\ LET e == body.top.m.error
                 r == body.top.m.response
             IN  /\ \/ e.t \in {"absent", "null"}
                    \/ /\ e.t = "object"
                       /\ e.m.error_code.t \in {"absent", "null", "number"}
                 /\ \/ r.t \in {"absent", "null"}
                    \/ /\ r.t = "array"
                       /\ \A i \in 1..Len(r.elems) :
                            r.elems[i].t \in {"object", "null"}

IsEnvelopeObject(body) == ValidForEnvelope(body) /\ body.top.t = "object"

\* the user list a `response` member carries
CarriedList(r) ==
    IF r.t = "array"
    THEN Slice([i \in 1..Len(r.elems) |->
                  IF r.elems[i].t = "object"
                  THEN [ID |-> r.elems[i].m.id.v] ELSE [ID |-> 0]])
    ELSE NilSlice

\* C1: a call with an empty userIds, or with a non-empty nameCase outside the
\* six name cases, returns a nil list and a validation error, and no HTTP
\* request is issued at any point of the call.
C1_ValidationRejects ==
    (/\ pc # "idle"
     /\ \/ Len(userIds) = 0
        \/ nameCase # EmptyString /\ nameCase \notin SixNameCases)
    => /\ httpCalls = 0
       /\ url = NoURL
       /\ Returned => /\ result.users = NilSlice
                      /\ result.err \in {ErrNoIds, ErrNameCase}

C1_Witness ==
    /\ Returned
    /\ Len(userIds) > 0
    /\ nameCase = <<"x", "y", "z">>
    /\ result.err = ErrNameCase

\* C2: a call with a non-empty userIds and the empty nameCase returns no
\* validation error, issues the HTTP GET, and its URL has no name_case
\* parameter.
C2_EmptyNameCaseAccepted ==
    (Returned /\ Len(userIds) > 0 /\ nameCase = EmptyString)
    => /\ result.err.kind # "errors.New"
       /\ httpCalls = 1
       /\ url # NoURL
       /\ \A i \in 1..Len(url.RawQuery) : url.RawQuery[i][1] # "name_case"

\* C3: when the body read decodes into the envelope and has a non-null
\* `error` object, the call returns an error implementing VkError whose
\* VkErrorCode() is the error_code sent, together with the list `response`
\* carried (nil when absent or null).
C3_RemoteErrorReturned ==
    (/\ Returned
     /\ responseBody # NotRead
     /\ IsEnvelopeObject(responseBody)
     /\ responseBody.top.m.error.t = "object")
    => LET e == responseBody.top.m.error
       IN  /\ result.err # NilErr
           /\ ImplementsVkError(result.err)
           /\ e.m.error_code.t = "number"
                => VkErrorCode(result.err) = e.m.error_code.v
           /\ result.users = CarriedList(responseBody.top.m.response)

C3_Witness ==
    /\ Returned
    /\ responseBody # NotRead
    /\ IsEnvelopeObject(responseBody)
    /\ responseBody.top.m.error = Obj([error_code |-> Num(113)])
    /\ responseBody.top.m.response.t = "array"
    /\ Len(responseBody.top.m.response.elems) = 2
    /\ VkErrorCode(result.err) = 113
    /\ Len(result.users.elems) = 2

\* C4: when the body read decodes into the envelope, has a populated
\* `response` array and a null or absent `error`, the call returns the
\* records of that array, as many and in the same order, with a nil error.
C4_ResponseReturned ==
    (/\ Returned
     /\ responseBody # NotRead
     /\ IsEnvelopeObject(responseBody)
     /\ responseBody.top.m.error.t \in {"absent", "null"}
     /\ responseBody.top.m.response.t = "array"
     /\ Len(responseBody.top.m.response.elems) > 0)
    => LET sent == responseBody.top.m.response.elems
       IN  /\ result.err = NilErr
           /\ ~result.users.isNil
           /\ Len(result.users.elems) = Len(sent)
           /\ \A i \in 1..Len(sent) :
                result.users.elems[i].ID =
                    IF sent[i].t = "object" THEN sent[i].m.id.v ELSE 0

C4_Witness ==
    /\ Returned
    /\ responseBody # NotRead
    /\ IsEnvelopeObject(responseBody)
    /\ responseBody.top.m.error = Null
    /\ responseBody.top.m.response =
           Arr(<<Obj([id |-> Num(2)]), Obj([id |-> Num(1)])>>)
    /\ result.users = Slice(<<[ID |-> 2], [ID |-> 1]>>)
    /\ result.err = NilErr

\* C5: when the body read is not valid JSON for the envelope, the call
\* returns the wrapped unmarshal error and a nil list.
C5_DecodeError ==
    (Returned /\ responseBody # NotRead /\ ~ValidForEnvelope(responseBody))
    => /\ result.err.kind = "errors.Wrap"
       /\ result.err.msg = "Failed to unmarshal VK response"
       /\ result.err.cause \in {SyntaxError, UnmarshalTypeError}
       /\ result.users = NilSlice

C5_Witness ==
    /\ Returned
    /\ responseBody # NotRead
    /\ responseBody.syntax = "json"
    /\ responseBody.top.t = "object"
    /\ responseBody.top.m.error = Str
    /\ responseBody.top.m.response.t = "array"
    /\ Len(responseBody.top.m.response.elems) = 1
    /\ result.err.kind = "errors.Wrap"

DigitValue(c) ==
    CASE c = "0" -> 0 [] c = "1" -> 1 [] c = "2" -> 2 [] c = "3" -> 3
      [] c = "4" -> 4 [] c = "5" -> 5 [] c = "6" -> 6 [] c = "7" -> 7
      [] c = "8" -> 8 [] c = "9" -> 9

RECURSIVE DecimalValue(_)
DecimalValue(s) ==
    IF Len(s) = 0 THEN 0
    ELSE 10 * DecimalValue(SubSeq(s, 1, Len(s) - 1)) + DigitValue(s[Len(s)])

\* s is the decimal form of n: an optional minus sign, then digits without
\* a leading zero
IsDecimalOf(s, n) ==
    LET digits == IF n < 0 THEN Tail(s) ELSE s
    IN  /\ Len(s) > 0
        /\ (n < 0) = (s[1] = "-")
        /\ Len(digits) > 0
        /\ \A i \in 1..Len(digits) :
             digits[i] \in {"0", "1", "2", "3", "4", "5", "6", "7", "8", "9"}
        /\ Len(digits) > 1 => digits[1] # "0"
        /\ DecimalValue(digits) = (IF n < 0 THEN -n ELSE n)

GetUserByIntIDEnded == pc = "done" /\ via = "GetUserByIntID"

\* C6 as claimed: GetUserByIntID calls UsersGet once with the decimal form of
\* userID; when that call returns exactly one record it returns that record
\* with a nil error, and with any other record count it panics.
C6_CountDecides ==
    GetUserByIntIDEnded
    => /\ usersGetCalls = 1
       /\ Len(userIds) = 1 /\ IsDecimalOf(userIds[1], userID)
       /\ Len(result.users.elems) = 1
            => outcome = [kind |-> "return", user |-> result.users.elems[1],
                          err |-> NilErr]
       /\ Len(result.users.elems) # 1 => outcome.kind = "panic"

\* C6 amended: GetUserByIntID calls UsersGet once with the decimal form of
\* userID; when that call returns a non-nil error it returns the zero record
\* and that error, whatever the record count; when it returns a nil error and
\* exactly one record it returns that record with a nil error; when it
\* returns a nil error and any other record count it panics.
C6_ErrorThenCount ==
    GetUserByIntIDEnded
    => /\ usersGetCalls = 1
       /\ Len(userIds) = 1 /\ IsDecimalOf(userIds[1], userID)
       /\ result.err # NilErr
            => outcome = [kind |-> "return", user |-> [ID |-> 0],
                          err |-> result.err]
       /\ (result.err = NilErr /\ Len(result.users.elems) = 1)
            => outcome = [kind |-> "return", user |-> result.users.elems[1],
                          err |-> NilErr]
       /\ (result.err = NilErr /\ Len(result.users.elems) # 1)
            => outcome.kind = "panic"

C6_Witness ==
    /\ GetUserByIntIDEnded
    /\ userID = -7
    /\ userIds = << <<"-", "7">> >>
    /\ result.err # NilErr
    /\ Len(result.users.elems) = 1
    /\ outcome.kind = "return"
    /\ outcome.err = result.err

\* C10: a call issues at most one GET, none when validation fails and exactly
\* one when it passes, whatever the GET, the decode or the API answered; when
\* the GET fails the call returns a nil list and the transport error itself,
\* and nothing is read or decoded.
C10_SingleGet ==
    /\ httpCalls <= 1
    /\ Returned => httpCalls = (IF Validate(userIds, nameCase) = NilErr
                                THEN 1 ELSE 0)
    /\ (Returned /\ getErr # NilErr)
         => /\ result.err = getErr
            /\ result.err \in TransportErrors
            /\ result.users = NilSlice
            /\ responseBody = NotRead
            /\ response = ZeroResponse

C10_Witness ==
    /\ Returned
    /\ getErr \in TransportErrors
    /\ httpCalls = 1
    /\ result.err = getErr

-----------------------------------------------------------------------------
(* Properties of the token registry *)

\* no addToken call is running: every call made so far has ended
Quiescent == \A g \in Goroutines : ~InCall(g)

\* a goroutine inside addToken can take its next step
CanStep(g) ==
    \/ apc[g] \in {"write", "Unlock"}
    \/ apc[g] = "Lock" /\ (pull.locker = "nil" \/ mutex = "unlocked")

AtMostOneTokenPerApp == \A a \in AppIDs : Cardinality(Entries(tokens, a)) <= 1

\* after calls made one after the other, each appID called for holds the
\* token of its most recent call
LastWriterWins ==
    (sequential /\ Quiescent)
    => \A a \in AppIDs :
         last[a] # NoToken => Entries(tokens, a) = {<<a, last[a]>>}

\* a step changes the entries of no appID but the one being written
OthersUnchanged ==
    \A a \in AppIDs :
        Entries(tokens', a) # Entries(tokens, a)
        => \E g \in Goroutines : apc[g] = "write" /\ aarg[g].appID = a

\* C7, on the registry the package creates: after any sequence of addToken
\* calls the registry holds for each appID at most one token, the one of the
\* most recent call for it, and a call leaves the other appIDs' entries
\* unchanged.
C7_LastWriterWins ==
    /\ [](pull = vkAppsPull => (AtMostOneTokenPerApp /\ LastWriterWins))
    /\ [][pull = vkAppsPull => OthersUnchanged]_vars

\* C8: on the package-level registry as the package initialises it, no
\* addToken call faults: each one locks, writes, unlocks and returns.
C8_NoFailurePath ==
    pull = vkAppsPull => \A g \in Goroutines : apc[g] # "panic"

\* C9, on the registry the package creates: at most one call is between Lock
\* and Unlock, the lock is held only around the map write, every call that
\* took the lock gives it back, and a call that has started can always be
\* carried on to its return (none is left unfinished with nothing to run).
C9_MutualExclusionAndProgress ==
    pull = vkAppsPull
    => /\ Cardinality({g \in Goroutines : apc[g] \in {"write", "Unlock"}}) <= 1
       /\ \A g \in Goroutines : (mutex = g) = (apc[g] \in {"write", "Unlock"})
       /\ \A g \in Goroutines :
            apc[g] # "idle" => \E h \in Goroutines : InCall(h) /\ CanStep(h)

\* On a registry that was given a mutex and a map the three hold.
Initialised == pull = VkAppsPull("mutex", "map")

InitialisedLastWriterWins ==
    Initialised => (AtMostOneTokenPerApp /\ LastWriterWins)

InitialisedOthersUnchanged == [][Initialised => OthersUnchanged]_vars

InitialisedNoFault ==
    Initialised => \A g \in Goroutines : apc[g] # "panic"

InitialisedMutualExclusionAndProgress ==
    Initialised
    => /\ Cardinality({g \in Goroutines : apc[g] \in {"write", "Unlock"}}) <= 1
       /\ \A g \in Goroutines : (mutex = g) = (apc[g] \in {"write", "Unlock"})
       /\ \A g \in Goroutines :
            apc[g] # "idle" => \E h \in Goroutines : InCall(h) /\ CanStep(h)

=============================================================================
